---- MODULE Spec2Model ----
(***************************************************************************)
(* A model of src/ImageEditor.ts (the complete version, lines 1-249): the  *)
(* EditImage pixel container, the textual codec (read / write), the four   *)
(* in-place filters and the run() driver.                                  *)
(*                                                                         *)
(* JavaScript numbers are modelled as integers plus one value NaN; the     *)
(* arithmetic the code uses is modelled by the Js* operators, which        *)
(* propagate NaN the way IEEE arithmetic, Math.floor/min/max/abs and the   *)
(* relational operators do.  Strings are sequences of one-character        *)
(* strings, so that formatting and parsing are real conversions.           *)
(***************************************************************************)
EXTENDS Integers, Sequences, FiniteSets, TLC

VARIABLES
    image,    \* the EditImage the program holds: [pixels |-> column array]
    imgs,     \* filter specification: the images before each applied filter
    ops,      \* filter specification: the filters applied, [name, length]
    call,     \* EditImage specification: the last get/set call and its outcome
    calls,    \* EditImage specification: number of calls made
    args,     \* run specification: the command line, a sequence of strings
    file,     \* run specification: contents of the input file
    out,      \* run specification: the output file, [opened, text]
    console,  \* run specification: what was printed, [usage, error]
    pc        \* run specification: position inside run()

vars == <<image, imgs, ops, call, calls, args, file, out, console, pc>>

(***************************************************************************)
(* Bounds of the model.                                                    *)
(***************************************************************************)
MaxW == 3
MaxH == 2
MaxCells == 6
MaxLen == 3
MaxOps == 2
MaxCalls == 2
MaxMissing == 3
MaxBad == 5

(***************************************************************************)
(* JavaScript numbers.                                                     *)
(***************************************************************************)
NaN == -999999

JsAdd(a, b) == IF a = NaN \/ b = NaN THEN NaN ELSE a + b

JsSub(a, b) == IF a = NaN \/ b = NaN THEN NaN ELSE a - b

JsAbs(a) == IF a = NaN THEN NaN ELSE IF a < 0 THEN 0 - a ELSE a

\* a > b; false when either side is NaN
JsGt(a, b) == a # NaN /\ b # NaN /\ a > b

JsMin(a, b) == IF a = NaN \/ b = NaN THEN NaN ELSE IF a < b THEN a ELSE b

JsMax(a, b) == IF a = NaN \/ b = NaN THEN NaN ELSE IF a > b THEN a ELSE b

\* Math.floor(a / d) for an integer d >= 1
JsFloorDiv(a, d) == IF a = NaN THEN NaN ELSE a \div d

(***************************************************************************)
(* class Color                                                             *)
(***************************************************************************)
Color(r, g, b) == [red |-> r, green |-> g, blue |-> b]

NewColor == Color(0, 0, 0)

(***************************************************************************)
(* class EditImage.  pixels is an array of columns; a column is a          *)
(* JavaScript array: its length and the elements (properties) it holds.    *)
(***************************************************************************)
ToLength(n) == IF n = NaN \/ n < 0 THEN 0 ELSE n

NewEditImage(width, height) ==
    [pixels |-> [x \in 0..(ToLength(width) - 1) |->
                    [length |-> ToLength(height),
                     elems  |-> [y \in 0..(ToLength(height) - 1) |-> NewColor]]]]

getWidth(img) == Cardinality(DOMAIN img.pixels)

\* precondition: the image has a column 0 (otherwise the code throws)
getHeight(img) == img.pixels[0].length

HasColumn(img, x) == x \in DOMAIN img.pixels

\* get(x, y): a TypeError when pixels[x] is undefined, undefined when the
\* column has no element y, the Color otherwise
get(img, x, y) ==
    IF ~HasColumn(img, x) THEN [kind |-> "TypeError"]
    ELSE IF y \notin DOMAIN img.pixels[x].elems THEN [kind |-> "undefined"]
    ELSE [kind |-> "value", color |-> img.pixels[x].elems[y]]

\* the column after the assignment column[y] = c
ArrayPut(col, y, c) ==
    [length |-> IF y >= col.length THEN y + 1 ELSE col.length,
     elems  |-> [k \in (DOMAIN col.elems) \cup {y} |->
                    IF k = y THEN c ELSE col.elems[k]]]

\* set(x, y, c): [threw, img]
set(img, x, y, c) ==
    IF ~HasColumn(img, x) THEN [threw |-> TRUE, img |-> img]
    ELSE [threw |-> FALSE,
          img |-> [pixels |-> [img.pixels EXCEPT ![x] = ArrayPut(@, y, c)]]]

\* the Color object at an in-range cell, as the filters obtain it
At(img, x, y) == img.pixels[x].elems[y]

\* the image after the fields of the Color object at (x, y) were assigned
Assign(img, x, y, c) == [pixels |-> [img.pixels EXCEPT ![x].elems[y] = c]]

(***************************************************************************)
(* ImageEditor.motionblur: for x ascending, y ascending, the Color object  *)
(* at (x, y) accumulates the cells to its right and is divided in place.   *)
(***************************************************************************)
IntMin(a, b) == IF a < b THEN a ELSE b

RECURSIVE blurSum(_, _, _, _, _)
\* the inner loop for (i = x + 1; i <= maxX; ++i), reading the image as it is
blurSum_exclusive(img, y, i, maxX, cur) ==
    IF i >= maxX THEN cur
    ELSE blurSum(img, y, i + 1, maxX,
                 Color(JsAdd(cur.red, At(img, i, y).red),
                       JsAdd(cur.green, At(img, i, y).green),
                       JsAdd(cur.blue, At(img, i, y).blue)))

blurSum(img, y, i, maxX, cur) ==
    IF i > maxX THEN cur
    ELSE blurSum(img, y, i + 1, maxX,
                 Color(JsAdd(cur.red, At(img, i, y).red),
                       JsAdd(cur.green, At(img, i, y).green),
                       JsAdd(cur.blue, At(img, i, y).blue)))

blurCell_offByOne(img, x, y, length) ==
    LET maxX  == IntMin(getWidth(img) - 1, x + length)
        sum   == blurSum(img, y, x + 1, maxX, At(img, x, y))
        delta == maxX - x + 1
    IN  Assign(img, x, y, Color(JsFloorDiv(sum.red, delta),
                                JsFloorDiv(sum.green, delta),
                                JsFloorDiv(sum.blue, delta)))

\* the body of the two loops for one cell
blurCell(img, x, y, length) ==
    LET maxX  == IntMin(getWidth(img) - 1, x + length - 1)
        sum   == blurSum(img, y, x + 1, maxX, At(img, x, y))
        delta == maxX - x + 1
    IN  Assign(img, x, y, Color(JsFloorDiv(sum.red, delta),
                                JsFloorDiv(sum.green, delta),
                                JsFloorDiv(sum.blue, delta)))

RECURSIVE blurRows(_, _, _, _)
blurRows(img, length, x, y) ==
    IF y >= getHeight(img) THEN img
    ELSE blurRows(blurCell(img, x, y, length), length, x, y + 1)

RECURSIVE blurCols(_, _, _)
blurCols(img, length, x) ==
    IF x >= getWidth(img) THEN img
    ELSE blurCols(blurRows(img, length, x, 0), length, x + 1)

motionblur(img, length) ==
    IF length < 1 THEN img ELSE blurCols(img, length, 0)

(***************************************************************************)
(* ImageEditor.invert                                                      *)
(***************************************************************************)
invertCell_copyPaste(img, x, y) ==
    LET cur == At(img, x, y)
    IN  Assign(img, x, y, Color(JsSub(255, cur.red),
                                JsSub(255, cur.red),
                                JsSub(255, cur.blue)))

invertCell(img, x, y) ==
    LET cur == At(img, x, y)
    IN  Assign(img, x, y, Color(JsSub(255, cur.red),
                                JsSub(255, cur.green),
                                JsSub(255, cur.blue)))

RECURSIVE invertRows(_, _, _)
invertRows(img, x, y) ==
    IF y >= getHeight(img) THEN img
    ELSE invertRows(invertCell(img, x, y), x, y + 1)

RECURSIVE invertCols(_, _)
invertCols(img, x) ==
    IF x >= getWidth(img) THEN img
    ELSE invertCols(invertRows(img, x, 0), x + 1)

invert(img) == invertCols(img, 0)

(***************************************************************************)
(* ImageEditor.grayscale                                                   *)
(***************************************************************************)
grayscaleCell_missedBlue(img, x, y) ==
    LET cur   == At(img, x, y)
        level == JsFloorDiv(JsAdd(JsAdd(cur.red, cur.green), cur.blue), 3)
        gray  == JsMax(0, JsMin(level, 255))
    IN  Assign(img, x, y, Color(gray, gray, cur.blue))

grayscaleCell(img, x, y) ==
    LET cur   == At(img, x, y)
        level == JsFloorDiv(JsAdd(JsAdd(cur.red, cur.green), cur.blue), 3)
        gray  == JsMax(0, JsMin(level, 255))
    IN  Assign(img, x, y, Color(gray, gray, gray))

RECURSIVE grayscaleRows(_, _, _)
grayscaleRows(img, x, y) ==
    IF y >= getHeight(img) THEN img
    ELSE grayscaleRows(grayscaleCell(img, x, y), x, y + 1)

RECURSIVE grayscaleCols(_, _)
grayscaleCols(img, x) ==
    IF x >= getWidth(img) THEN img
    ELSE grayscaleCols(grayscaleRows(img, x, 0), x + 1)

grayscale(img) == grayscaleCols(img, 0)

(***************************************************************************)
(* ImageEditor.emboss: x descending, y descending, so that the up-left     *)
(* neighbour is read before it is rewritten.                               *)
(***************************************************************************)
embossCell_noClamp(img, x, y) ==
    LET cur == At(img, x, y)
        up  == At(img, x - 1, y - 1)
        dr  == JsSub(cur.red, up.red)
        dg  == JsSub(cur.green, up.green)
        db  == JsSub(cur.blue, up.blue)
        d1  == IF JsGt(JsAbs(dr), JsAbs(0)) THEN dr ELSE 0
        d2  == IF JsGt(JsAbs(dg), JsAbs(d1)) THEN dg ELSE d1
        d3  == IF JsGt(JsAbs(db), JsAbs(d2)) THEN db ELSE d2
        diff == IF x > 0 /\ y > 0 THEN d3 ELSE 0
        gray == JsAdd(128, diff)
    IN  Assign(img, x, y, Color(gray, gray, gray))

embossCell(img, x, y) ==
    LET cur == At(img, x, y)
        up  == At(img, x - 1, y - 1)
        dr  == JsSub(cur.red, up.red)
        dg  == JsSub(cur.green, up.green)
        db  == JsSub(cur.blue, up.blue)
        d1  == IF JsGt(JsAbs(dr), JsAbs(0)) THEN dr ELSE 0
        d2  == IF JsGt(JsAbs(dg), JsAbs(d1)) THEN dg ELSE d1
        d3  == IF JsGt(JsAbs(db), JsAbs(d2)) THEN db ELSE d2
        diff == IF x > 0 /\ y > 0 THEN d3 ELSE 0
        gray == JsMax(0, JsMin(JsAdd(128, diff), 255))
    IN  Assign(img, x, y, Color(gray, gray, gray))

RECURSIVE embossRows(_, _, _)
embossRows(img, x, y) ==
    IF y < 0 THEN img
    ELSE embossRows(embossCell(img, x, y), x, y - 1)

RECURSIVE embossCols(_, _)
embossCols(img, x) ==
    IF x < 0 THEN img
    ELSE embossCols(embossRows(img, x, getHeight(img) - 1), x - 1)

RECURSIVE embossRowsForward(_, _, _)
embossRowsForward(img, x, y) ==
    IF y >= getHeight(img) THEN img
    ELSE embossRowsForward(embossCell(img, x, y), x, y + 1)

RECURSIVE embossColsForward(_, _)
embossColsForward(img, x) ==
    IF x >= getWidth(img) THEN img
    ELSE embossColsForward(embossRowsForward(img, x, 0), x + 1)

emboss_forward(img) == embossColsForward(img, 0)

emboss(img) == embossCols(img, getWidth(img) - 1)

(***************************************************************************)
(* The filter specification: a grid drawn from a small palette, then any   *)
(* sequence of at most MaxOps filters.                                     *)
(***************************************************************************)
Palette == {Color(200, 20, 5), Color(20, 200, 6), Color(300, 300, 200)}

Dims == {d \in (1..MaxW) \X (1..MaxH) : d[1] * d[2] <= MaxCells}

Grid(w, h, f) ==
    [pixels |-> [x \in 0..(w - 1) |-> [length |-> h, elems |-> f[x]]]]

Idle == [op |-> "none", x |-> 0, y |-> 0, outcome |-> "none", before |-> <<>>]

NoArgs == <<>>

NoFile == <<>>

NoOut == [opened |-> FALSE, text |-> <<>>]

NoConsole == [usage |-> FALSE, error |-> FALSE]

InitF ==
    /\ \E d \in Dims : \E f \in [0..(d[1] - 1) -> [0..(d[2] - 1) -> Palette]] :
          image = Grid(d[1], d[2], f)
    /\ imgs = <<>>
    /\ ops = <<>>
    /\ call = Idle
    /\ calls = 0
    /\ args = NoArgs
    /\ file = NoFile
    /\ out = NoOut
    /\ console = NoConsole
    /\ pc = "filters"

Applied(name, length, result) ==
    /\ Len(ops) < MaxOps
    /\ image' = result
    /\ imgs' = Append(imgs, image)
    /\ ops' = Append(ops, [name |-> name, length |-> length])
    /\ UNCHANGED <<call, calls, args, file, out, console, pc>>

ApplyGrayscale == Applied("grayscale", 0, grayscale(image))

ApplyInvert == Applied("invert", 0, invert(image))

ApplyEmboss == Applied("emboss", 0, emboss(image))

ApplyMotionblur == \E length \in 0..MaxLen :
    Applied("motionblur", length, motionblur(image, length))

NextF == ApplyGrayscale \/ ApplyInvert \/ ApplyEmboss \/ ApplyMotionblur

SpecF == InitF /\ [][NextF]_vars

(***************************************************************************)
(* Properties of the filters.                                              *)
(***************************************************************************)
Cells(img) == {c \in (0..(getWidth(img) - 1)) \X (0..(getHeight(img) - 1)) : TRUE}

Channels == {"red", "green", "blue"}

InRange(img) ==
    \A c \in Cells(img) : \A ch \in Channels : At(img, c[1], c[2])[ch] \in 0..255

LastOp == ops[Len(ops)]

Before == imgs[Len(imgs)]

First == IF imgs = <<>> THEN image ELSE imgs[1]

SameDims(a, b) == getWidth(a) = getWidth(b) /\ getHeight(a) = getHeight(b)

RECURSIVE RunSum(_, _, _, _, _)
\* the sum of channel ch over the cells (x, y)..(m, y) of img
RunSum(img, ch, y, x, m) ==
    IF x > m THEN 0 ELSE At(img, x, y)[ch] + RunSum(img, ch, y, x + 1, m)

\* C1: after motionblur(grid, length) with length >= 1 on a grid with channels
\* in [0,255], every cell holds per channel floor(S / n), S the sum of the
\* pre-filter values of the cells (x,y)..(m,y), m = min(width-1, x+length-1),
\* n = m - x + 1.
C1_MotionblurUsesOriginals ==
    (pc = "filters" /\ ops # <<>> /\ LastOp.name = "motionblur"
        /\ LastOp.length >= 1 /\ InRange(Before))
    => /\ SameDims(image, Before)
       /\ \A c \in Cells(Before) : \A ch \in Channels :
            LET m == IntMin(getWidth(Before) - 1, c[1] + LastOp.length - 1)
                n == m - c[1] + 1
            IN  At(image, c[1], c[2])[ch] = RunSum(Before, ch, c[2], c[1], m) \div n

C1_Witness ==
    /\ pc = "filters" /\ ops # <<>> /\ LastOp.name = "motionblur"
    /\ LastOp.length = 2 /\ InRange(Before) /\ getWidth(Before) = 3
    /\ At(image, 0, 0) # At(Before, 0, 0)
    /\ At(image, 1, 0) # At(Before, 1, 0)

AbsInt(a) == IF a < 0 THEN 0 - a ELSE a

Clamp(v) == IF v < 0 THEN 0 ELSE IF v > 255 THEN 255 ELSE v

\* the difference of largest absolute value, the first of red, green, blue
\* among equals
LargestDiff(cur, up) ==
    LET d == <<cur.red - up.red, cur.green - up.green, cur.blue - up.blue>>
        i == CHOOSE j \in 1..3 :
                /\ \A k \in 1..3 : AbsInt(d[j]) >= AbsInt(d[k])
                /\ \A k \in 1..(j - 1) : AbsInt(d[k]) < AbsInt(d[j])
    IN  d[i]

EmbossValue(img, x, y) ==
    LET diff == IF x = 0 \/ y = 0 THEN 0
                ELSE LargestDiff(At(img, x, y), At(img, x - 1, y - 1))
    IN  Clamp(128 + diff)

\* C2: after emboss every cell has its three channels equal to
\* clamp(128 + diff, 0, 255), diff computed from the pre-filter grid: 0 on the
\* boundary x = 0 or y = 0, otherwise the channel difference to (x-1, y-1) of
\* largest absolute value, red before green before blue among equals.
C2_EmbossFromSnapshot ==
    (pc = "filters" /\ ops # <<>> /\ LastOp.name = "emboss")
    => /\ SameDims(image, Before)
       /\ \A c \in Cells(Before) :
            LET v == EmbossValue(Before, c[1], c[2])
            IN  At(image, c[1], c[2]) = Color(v, v, v)

C2_Witness ==
    /\ pc = "filters" /\ ops = <<[name |-> "emboss", length |-> 0]>>
    /\ getWidth(Before) = 3 /\ getHeight(Before) = 2
    /\ At(Before, 0, 0) = Color(20, 200, 6)
    /\ At(Before, 1, 0) = Color(200, 20, 5)
    /\ At(Before, 1, 1) = Color(200, 20, 5)
    /\ At(Before, 2, 1) = Color(20, 200, 6)
    /\ At(image, 0, 1) = Color(128, 128, 128)
    /\ At(image, 1, 1) = Color(255, 255, 255)
    /\ At(image, 2, 1) = Color(0, 0, 0)

\* C7: applying invert twice yields the original grid in every channel of
\* every cell.
C7_InvertTwice ==
    (pc = "filters" /\ Len(ops) >= 2 /\ LastOp.name = "invert"
        /\ ops[Len(ops) - 1].name = "invert")
    => image = imgs[Len(imgs) - 1]

C7_Witness ==
    /\ pc = "filters" /\ Len(ops) = 2 /\ LastOp.name = "invert"
    /\ ops[1].name = "invert"
    /\ imgs[2] # imgs[1] /\ getWidth(image) = 3 /\ getHeight(image) = 2

IsGray(c) == c.red = c.green /\ c.green = c.blue /\ c.red \in 0..255

\* C8: applying grayscale twice yields the same grid as applying it once; a
\* cell whose three channels are equal and in [0,255] is left unchanged by
\* grayscale.
C8_GrayscaleIdempotent ==
    /\ (pc = "filters" /\ Len(ops) >= 2 /\ LastOp.name = "grayscale"
            /\ ops[Len(ops) - 1].name = "grayscale")
       => image = Before
    /\ (pc = "filters" /\ ops # <<>> /\ LastOp.name = "grayscale")
       => \A c \in Cells(Before) :
             IsGray(At(Before, c[1], c[2]))
             => At(image, c[1], c[2]) = At(Before, c[1], c[2])

C8_Witness ==
    /\ pc = "filters" /\ Len(ops) = 2 /\ LastOp.name = "grayscale"
    /\ ops[1].name = "grayscale"
    /\ imgs[2] # imgs[1] /\ getWidth(image) = 3 /\ getHeight(image) = 2
    /\ At(imgs[1], 0, 0) = Color(300, 300, 200)

\* C9: motionblur(grid, 0) and motionblur(grid, 1) leave every channel of
\* every cell and the dimensions of the grid unchanged.
C9_MotionblurNoOp ==
    (pc = "filters" /\ ops # <<>> /\ LastOp.name = "motionblur"
        /\ LastOp.length \in {0, 1})
    => image = Before /\ SameDims(image, Before)

C9_Witness ==
    /\ pc = "filters" /\ ops # <<>> /\ LastOp.name = "motionblur"
    /\ LastOp.length = 1 /\ getWidth(image) = 3
    /\ At(image, 0, 0) # At(image, 1, 0)

\* C10: if every channel of every cell of the grid is in [0,255], then after
\* any sequence of filters every channel of every cell is again in [0,255].
C10_ChannelsStayInRange ==
    (pc = "filters" /\ InRange(First)) => InRange(image)

C10_Witness ==
    /\ pc = "filters" /\ Len(ops) = 2 /\ InRange(First)
    /\ ops[1].name = "invert" /\ ops[2].name = "emboss"
    /\ \E c \in Cells(image) : At(image, c[1], c[2]).red = 255
    /\ \E c \in Cells(image) : At(image, c[1], c[2]).red = 0

(***************************************************************************)
(* The EditImage specification: a freshly constructed grid, then at most   *)
(* MaxCalls calls of get and set with coordinates in and out of range.     *)
(***************************************************************************)
InitE ==
    /\ \E d \in Dims : image = NewEditImage(d[1], d[2])
    /\ imgs = <<>>
    /\ ops = <<>>
    /\ call = Idle
    /\ calls = 0
    /\ args = NoArgs
    /\ file = NoFile
    /\ out = NoOut
    /\ console = NoConsole
    /\ pc = "editimage"

CallGet == \E x \in (0 - 1)..MaxW : \E y \in (0 - 1)..MaxH :
    /\ calls < MaxCalls
    /\ calls' = calls + 1
    /\ call' = [op |-> "get", x |-> x, y |-> y,
                outcome |-> get(image, x, y).kind, before |-> image]
    /\ UNCHANGED <<image, imgs, ops, args, file, out, console, pc>>

CallSet == \E x \in (0 - 1)..MaxW : \E y \in (0 - 1)..MaxH : \E c \in Palette :
    /\ calls < MaxCalls
    /\ calls' = calls + 1
    /\ image' = set(image, x, y, c).img
    /\ call' = [op |-> "set", x |-> x, y |-> y,
                outcome |-> IF set(image, x, y, c).threw THEN "TypeError"
                            ELSE "returned",
                before |-> image]
    /\ UNCHANGED <<imgs, ops, args, file, out, console, pc>>

NextE == CallGet \/ CallSet

SpecE == InitE /\ [][NextE]_vars

OutOfRange(img, x, y) ==
    ~(0 <= x /\ x < getWidth(img) /\ 0 <= y /\ y < getHeight(img))

\* C5: get(x, y) and set(x, y, c) with x outside [0,width) or y outside
\* [0,height) fail with an error; set then changes neither the grid nor its
\* reported width and height.
C5_OutOfRangeFails ==
    (pc = "editimage" /\ call.op \in {"get", "set"}
        /\ OutOfRange(call.before, call.x, call.y))
    => /\ call.outcome = "TypeError"
       /\ image = call.before
       /\ SameDims(image, call.before)

(***************************************************************************)
(* Strings: sequences of one-character strings.                            *)
(***************************************************************************)
DigitChars == <<"0", "1", "2", "3", "4", "5", "6", "7", "8", "9">>

HexChars == <<"0", "1", "2", "3", "4", "5", "6", "7", "8", "9",
              "a", "b", "c", "d", "e", "f">>

UpperHexChars == <<"0", "1", "2", "3", "4", "5", "6", "7", "8", "9",
                   "A", "B", "C", "D", "E", "F">>

\* the value of character c as a digit of the radix, or -1
DigitOf(c, radix) ==
    IF \E d \in 1..radix : HexChars[d] = c
        THEN (CHOOSE d \in 1..radix : HexChars[d] = c) - 1
    ELSE IF \E d \in 1..radix : UpperHexChars[d] = c
        THEN (CHOOSE d \in 1..radix : UpperHexChars[d] = c) - 1
    ELSE 0 - 1

\* the characters the regular expression \s matches, of those the model uses
IsSpace(c) == c \in {" ", "\n", "\t", "\r"}

RECURSIVE splitFrom(_, _, _, _)
splitFrom(text, i, cur, acc) ==
    IF i > Len(text) THEN Append(acc, cur)
    ELSE IF ~IsSpace(text[i]) THEN splitFrom(text, i + 1, Append(cur, text[i]), acc)
    ELSE IF i > 1 /\ IsSpace(text[i - 1]) THEN splitFrom(text, i + 1, cur, acc)
    ELSE splitFrom(text, i + 1, <<>>, Append(acc, cur))

\* String.prototype.split(/\s+/)
split(text) == splitFrom(text, 1, <<>>, <<>>)

RECURSIVE parseDigits(_, _, _, _, _)
\* the value of the longest run of digits of s from position i on; NaN when
\* there is none
parseDigits(s, i, radix, acc, any) ==
    IF i > Len(s) \/ DigitOf(s[i], radix) < 0
        THEN (IF any THEN acc ELSE NaN)
    ELSE parseDigits(s, i + 1, radix, acc * radix + DigitOf(s[i], radix), TRUE)

\* parseInt(s) of a string without leading white space: an optional sign, an
\* optional 0x / 0X prefix selecting radix 16, then digits
parseInt(s) ==
    LET signed == Len(s) >= 1 /\ s[1] \in {"-", "+"}
        start  == IF signed THEN 2 ELSE 1
        hex    == Len(s) > start /\ s[start] = "0" /\ s[start + 1] \in {"x", "X"}
        mag    == IF hex THEN parseDigits(s, start + 2, 16, 0, FALSE)
                  ELSE parseDigits(s, start, 10, 0, FALSE)
    IN  IF mag = NaN THEN NaN
        ELSE IF signed /\ s[1] = "-" THEN 0 - mag ELSE mag

\* parseInt(tokens[t]) with t counted from 0; tokens[t] is undefined past the
\* end of the array, and parseInt(undefined) is NaN
parseIntAt(tokens, t) ==
    IF t >= Len(tokens) THEN NaN ELSE parseInt(tokens[t + 1])

RECURSIVE decimal(_)
decimal(n) ==
    IF n < 10 THEN <<DigitChars[n + 1]>>
    ELSE Append(decimal(n \div 10), DigitChars[(n % 10) + 1])

\* the text `${n}` of a number
toString(n) ==
    IF n = NaN THEN <<"N", "a", "N">>
    ELSE IF n < 0 THEN <<"-">> \o decimal(0 - n)
    ELSE decimal(n)

(***************************************************************************)
(* ImageEditor.read                                                        *)
(***************************************************************************)
RECURSIVE readCols(_, _, _, _, _, _)
\* the inner loop for (x = 0; x < width; ++x); t is the index of the last
\* token consumed
readCols(img, tokens, width, y, x, t) ==
    IF ~JsGt(width, x) THEN img
    ELSE readCols(set(img, x, y, Color(parseIntAt(tokens, t + 1),
                                       parseIntAt(tokens, t + 2),
                                       parseIntAt(tokens, t + 3))).img,
                  tokens, width, y, x + 1, t + 3)

RECURSIVE readRows(_, _, _, _, _, _)
readRows(img, tokens, width, height, y, t) ==
    IF ~JsGt(height, y) THEN img
    ELSE readRows(readCols(img, tokens, width, y, 0, t),
                  tokens, width, height, y + 1, t + 3 * ToLength(width))

read(text) ==
    LET tokens == split(text)
        width  == parseIntAt(tokens, 1)
        height == parseIntAt(tokens, 2)
    IN  readRows(NewEditImage(width, height), tokens, width, height, 0, 3)

(***************************************************************************)
(* ImageEditor.write: the text written to the output file, and whether the *)
(* writing threw after the file was opened.                                *)
(***************************************************************************)
TripleSep_none(x) == <<>>

TripleSep(x) == IF x = 0 THEN <<>> ELSE <<" ">>

Triple(c) ==
    toString(c.red) \o <<" ">> \o toString(c.green) \o <<" ">> \o toString(c.blue)

RECURSIVE writeCols(_, _, _, _)
writeCols(img, y, x, text) ==
    IF x >= getWidth(img) THEN text
    ELSE writeCols(img, y, x + 1, text \o TripleSep(x) \o Triple(At(img, x, y)))

RECURSIVE writeRows(_, _, _)
writeRows(img, y, text) ==
    IF y >= getHeight(img) THEN text
    ELSE writeRows(img, y + 1, writeCols(img, y, 0, text) \o <<"\n">>)

write(img) ==
    LET tag == <<"P", "3", "\n">>
    IN  IF ~HasColumn(img, 0)
            THEN [threw |-> TRUE, text |-> tag]
        ELSE [threw |-> FALSE,
              text |-> writeRows(img, 0,
                          tag \o toString(getWidth(img)) \o <<" ">>
                              \o toString(getHeight(img)) \o <<"\n">>
                              \o <<"2", "5", "5", "\n">>)]

(***************************************************************************)
(* ImageEditor.run, in three steps: the argument check and read (lines     *)
(* 8-17), the dispatch on the filter name (lines 19-57), the write (line   *)
(* 59) with the catch clause (lines 61-67).                                *)
(***************************************************************************)
Grayscale == <<"g", "r", "a", "y", "s", "c", "a", "l", "e">>

Greyscale == <<"g", "r", "e", "y", "s", "c", "a", "l", "e">>

Invert == <<"i", "n", "v", "e", "r", "t">>

Emboss == <<"e", "m", "b", "o", "s", "s">>

Motionblur == <<"m", "o", "t", "i", "o", "n", "b", "l", "u", "r">>

\* the three-argument filters and the function each one runs
Plain(filter) == filter \in {Grayscale, Greyscale, Invert, Emboss}

PlainResult(filter, img) ==
    IF filter \in {Grayscale, Greyscale} THEN grayscale(img)
    ELSE IF filter = Invert THEN invert(img)
    ELSE emboss(img)

Usage == [console EXCEPT !.usage = TRUE]

RunTooFewArgs ==
    /\ pc = "start"
    /\ Len(args) < 3
    /\ console' = Usage
    /\ pc' = "done"
    /\ UNCHANGED <<image, imgs, ops, call, calls, args, file, out>>

RunRead ==
    /\ pc = "start"
    /\ ~(Len(args) < 3)
    /\ image' = read(file)
    /\ pc' = "read"
    /\ UNCHANGED <<imgs, ops, call, calls, args, file, out, console>>

\* a recognised filter with the wrong number of arguments, or motionblur
\* with a length that is not a number or is negative: usage() and return
RunUsageReturn ==
    /\ pc = "read"
    /\ \/ Plain(args[3]) /\ Len(args) # 3
       \/ args[3] = Motionblur /\ Len(args) # 4
       \/ /\ args[3] = Motionblur /\ Len(args) = 4
          /\ (parseInt(args[4]) = NaN \/ parseInt(args[4]) < 0)
    /\ console' = Usage
    /\ pc' = "done"
    /\ UNCHANGED <<image, imgs, ops, call, calls, args, file, out>>

RunPlainFilter ==
    /\ pc = "read"
    /\ Plain(args[3]) /\ Len(args) = 3
    /\ image' = PlainResult(args[3], image)
    /\ pc' = "filtered"
    /\ UNCHANGED <<imgs, ops, call, calls, args, file, out, console>>

RunMotionblur ==
    /\ pc = "read"
    /\ args[3] = Motionblur /\ Len(args) = 4
    /\ parseInt(args[4]) # NaN /\ ~(parseInt(args[4]) < 0)
    /\ image' = motionblur(image, parseInt(args[4]))
    /\ pc' = "filtered"
    /\ UNCHANGED <<imgs, ops, call, calls, args, file, out, console>>

\* the final else: usage(), and control continues to the write
RunUnknownFilter ==
    /\ pc = "read"
    /\ ~Plain(args[3]) /\ args[3] # Motionblur
    /\ console' = Usage
    /\ pc' = "filtered"
    /\ UNCHANGED <<image, imgs, ops, call, calls, args, file, out>>

RunWrite ==
    /\ pc = "filtered"
    /\ out' = [opened |-> TRUE, text |-> write(image).text]
    /\ console' = [console EXCEPT !.error = write(image).threw]
    /\ pc' = "done"
    /\ UNCHANGED <<image, imgs, ops, call, calls, args, file>>

Next ==
    \/ RunTooFewArgs
    \/ RunRead
    \/ RunUsageReturn
    \/ RunPlainFilter
    \/ RunMotionblur
    \/ RunUnknownFilter
    \/ RunWrite

(***************************************************************************)
(* The run specification: one run of the program on a command line and an  *)
(* input file.  The input files are images over a two-colour palette,      *)
(* laid out with three spaces between the triples of a row, complete or    *)
(* with their last tokens missing or one token replaced by a letter.       *)
(***************************************************************************)
TextPalette == {Color(200, 20, 5), Color(300, 300, 200)}

\* the tokens after the tag: width, height, maximum value, then the triples
\* in row-major order
FileTokens(w, h, f) ==
    [j \in 1..(3 + 3 * w * h) |->
        IF j = 1 THEN toString(w)
        ELSE IF j = 2 THEN toString(h)
        ELSE IF j = 3 THEN <<"2", "5", "5">>
        ELSE LET k  == (j - 4) \div 3
                 c  == f[k % w][k \div w]
             IN  IF (j - 4) % 3 = 0 THEN toString(c.red)
                 ELSE IF (j - 4) % 3 = 1 THEN toString(c.green)
                 ELSE toString(c.blue)]

Damaged(toks, missing, bad) ==
    [j \in 1..(Len(toks) - missing) |-> IF j = bad THEN <<"x">> ELSE toks[j]]

RECURSIVE Layout(_, _, _, _)
Layout(toks, w, j, text) ==
    IF j > Len(toks) THEN text \o <<"\n">>
    ELSE LET sep == IF j = 1 THEN <<>>
                    ELSE IF j <= 4 THEN (IF j = 2 THEN <<" ">> ELSE <<"\n">>)
                    ELSE IF (j - 4) % (3 * w) = 0 THEN <<"\n">>
                    ELSE IF (j - 4) % 3 = 0 THEN <<" ", " ", " ">>
                    ELSE <<" ">>
         IN  Layout(toks, w, j + 1, text \o sep \o toks[j])

InputText(w, h, f, missing, bad) ==
    Layout(Damaged(FileTokens(w, h, f), missing, bad), w, 1, <<"P", "3", "\n">>)

Defects ==
    {[missing |-> m, bad |-> 0] : m \in 0..MaxMissing}
        \cup {[missing |-> 0, bad |-> b] : b \in 1..MaxBad}

LengthArgs == {toString(n) : n \in 0..MaxLen} \cup {<<"-", "1">>, <<"x">>}

FilterNames == {Grayscale, Greyscale, Invert, Emboss, Motionblur,
                <<"s", "e", "p", "i", "a">>}

InFile == <<"i", "n">>

OutFile == <<"o", "u", "t">>

CommandLines ==
    {<<InFile, OutFile>>}
        \cup {<<InFile, OutFile, n>> : n \in FilterNames}
        \cup {<<InFile, OutFile, n, <<"2">> >> : n \in FilterNames}
        \cup {<<InFile, OutFile, Motionblur, l>> : l \in LengthArgs}
        \cup {<<InFile, OutFile, Motionblur, <<"2">>, <<"2">> >>}

Init ==
    /\ args \in CommandLines
    /\ \E d \in Dims : \E f \in [0..(d[1] - 1) -> [0..(d[2] - 1) -> TextPalette]] :
          \E df \in Defects :
             file = InputText(d[1], d[2], f, df.missing, df.bad)
    /\ image = NewEditImage(0, 0)
    /\ imgs = <<>>
    /\ ops = <<>>
    /\ call = Idle
    /\ calls = 0
    /\ out = NoOut
    /\ console = NoConsole
    /\ pc = "start"

Spec == Init /\ [][Next]_vars

(***************************************************************************)
(* Properties of the run.                                                  *)
(***************************************************************************)
IsNumeral(tok) == Len(tok) >= 1 /\ \A i \in 1..Len(tok) : DigitOf(tok[i], 10) >= 0

RECURSIVE NumeralValue(_)
NumeralValue(tok) ==
    IF tok = <<>> THEN 0
    ELSE 10 * NumeralValue(SubSeq(tok, 1, Len(tok) - 1)) + DigitOf(tok[Len(tok)], 10)

DeclaresSize(tokens) ==
    /\ Len(tokens) >= 4
    /\ IsNumeral(tokens[2]) /\ IsNumeral(tokens[3])
    /\ NumeralValue(tokens[2]) >= 1 /\ NumeralValue(tokens[3]) >= 1

PixelTokensNeeded(tokens) == 3 * NumeralValue(tokens[2]) * NumeralValue(tokens[3])

HasAllPixels(tokens) ==
    \A j \in 1..PixelTokensNeeded(tokens) :
        4 + j <= Len(tokens) /\ IsNumeral(tokens[4 + j])

WellFormed(text) ==
    LET tokens == split(text)
    IN  /\ DeclaresSize(tokens)
        /\ tokens[1] = <<"P", "3">>
        /\ IsNumeral(tokens[4])
        /\ HasAllPixels(tokens)

\* fewer pixel tokens than width x height requires, or a token that is not a
\* number where the width, the height or a channel is expected
Malformed(text) ==
    LET tokens == split(text)
    IN  \/ Len(tokens) < 3
        \/ ~IsNumeral(tokens[2]) \/ ~IsNumeral(tokens[3])
        \/ DeclaresSize(tokens) /\ ~HasAllPixels(tokens)

KnownFilter(name) == Plain(name) \/ name = Motionblur

\* the filter name is not one of the five, or the number of arguments is
\* wrong for the named filter
BadInvocation ==
    \/ Len(args) < 3
    \/ ~KnownFilter(args[3])
    \/ Plain(args[3]) /\ Len(args) # 3
    \/ args[3] = Motionblur /\ Len(args) # 4

\* C3: when the filter name is not recognised or the argument count is wrong
\* for the named filter, the run prints usage and ends without ever opening
\* the output file.
C3_UsageNeverWrites ==
    (pc \in {"start", "read", "filtered", "done"} /\ BadInvocation)
    => /\ ~out.opened
       /\ pc = "done" => console.usage

\* C4: on an input with fewer pixel tokens than its width x height requires,
\* or with a non-numeric token where a number is expected, read never returns
\* a grid: no filter is applied and no output is written.
C4_MalformedInputIsFatal ==
    (pc \in {"start", "read", "filtered", "done"} /\ Len(args) >= 3
        /\ Malformed(file))
    => /\ pc \notin {"read", "filtered"}
       /\ ~out.opened

\* C6: for a well-formed input text, read returns the grid the text declares
\* (x the column, y the row, row-major), and the text write produces for it
\* reads back as a grid with the same width, height and Colors.
C6_RoundTrip ==
    (pc = "read" /\ WellFormed(file))
    => LET tokens == split(file)
           w == NumeralValue(tokens[2])
           h == NumeralValue(tokens[3])
       IN  /\ getWidth(image) = w /\ getHeight(image) = h
           /\ \A x \in 0..(w - 1) : \A y \in 0..(h - 1) :
                At(image, x, y) =
                    Color(NumeralValue(tokens[5 + 3 * (y * w + x)]),
                          NumeralValue(tokens[6 + 3 * (y * w + x)]),
                          NumeralValue(tokens[7 + 3 * (y * w + x)]))
           /\ ~write(image).threw
           /\ read(write(image).text) = image

C6_Witness ==
    /\ pc = "read" /\ WellFormed(file)
    /\ getWidth(image) = 3 /\ getHeight(image) = 2
    /\ At(image, 2, 0) = Color(200, 20, 5)
    /\ At(image, 0, 1) = Color(300, 300, 200)
    /\ write(image).text # file
    /\ read(write(image).text) = image

====
